---- MODULE Spec2Model ----
(***************************************************************************)
(* Token-bucket traffic shaper: PacketQueue, TokenBucket, Flow,            *)
(* TrafficGenerator (one producer thread per flow) and TrafficShaper (one  *)
(* consumer thread), driven by a wall clock.                               *)
(*                                                                         *)
(* Time is in microseconds, as in the source.  The clock advances in       *)
(* quanta of TickStep; sleep_for(d) lets a thread continue once at least d *)
(* microseconds have passed since the call, never earlier (gsleep, ssleep  *)
(* hold what is left of the sleep).                                        *)
(***************************************************************************)
EXTENDS Integers, FiniteSets, Sequences, TLC

(* ----------------------------- configuration --------------------------- *)

\* scenario parameters (constructor arguments), scaled down
Flows == {1, 2}
MaxQueueSize == 2
TokenRate == 5000
BucketSize == 1
LinkCapacity == 10000000
TargetRate == 5000000
MinSize == 1
MaxSize == 1
SampleIntervalMs == 0

\* exploration bounds
TickStep == 100
MaxTicks == 2
MaxRateTicks == 4
MaxBucketTicks == 6
MaxPackets == 3
MaxLifePackets == 1
MaxConfigRate == 3
MaxSamples == 1
MaxHistory == 3
MaxStopPackets == 2

\* literals of the source
Million == 1000000
PollMicros == 100
AvgPacketSize == 500
LOW == 0
MEDIUM == 1
HIGH == 2
CRITICAL == 3

PriorityConfigs == {[f \in Flows |-> IF f = 1 THEN HIGH ELSE p] : p \in {MEDIUM, HIGH}}
FlowTypeOf == [f \in Flows |-> "CONSTANT_RATE"]
ShaperFlows == Flows
Source == 1
BucketCallers == {"c1", "c2"}
NoPacket == [flow |-> 0]
NoOwner == "none"
\* threads that call PacketQueue::dequeue
Dequeuers == {"d1", "d2"}

\* no dequeue of the caller has returned yet
NotReturned == [flow |-> -1]

\* nothing constructed yet
NoConfig == [type |-> "none"]

\* no division executed yet
NoOutcome == [call |-> "none", kind |-> "none", value |-> 0]

\* the arrival kinds of FlowType
FlowTypes == {"CONSTANT_RATE", "BURSTY", "POISSON"}

\* target rates and link capacities handed to the constructors
ConfigRates == (0..MaxConfigRate) \cup {TargetRate}

ConfigLinks == {0, LinkCapacity}

NoSample == [timestamp |-> -1]

RECURSIVE SumOver(_, _)
SumOver(fn, S) ==
  IF S = {} THEN 0
  ELSE LET x == CHOOSE y \in S : TRUE IN fn[x] + SumOver(fn, S \ {x})

Min(a, b) == IF a <= b THEN a ELSE b
Max(a, b) == IF a >= b THEN a ELSE b

VARIABLES
  now,                 \* high_resolution_clock::now(), microseconds
  queue,               \* PacketQueue::queue_ (the packets stored in the heap)
  currentSize,         \* PacketQueue::currentSize_
  totalDropped,        \* PacketQueue::totalDropped_
  tokens,              \* TokenBucket::tokens_
  lastUpdate,          \* TokenBucket::lastUpdate_
  priority,            \* Flow::priority_ of each flow
  active,              \* Flow::active_
  packetsSent,         \* Flow::packetsSent_
  packetsDropped,      \* Flow::packetsDropped_
  flowBytes,           \* Flow::bytesTransmitted_
  genRunning,          \* TrafficGenerator::running_
  gpc,                 \* position of each producer thread in generateTraffic
  gpkt,                \* the packet a producer holds
  gsleep,              \* what is left of a producer's sleep_for
  shRunning,           \* TrafficShaper::running_
  spc,                 \* position of the shaper thread in processPackets
  spkt,                \* the packet the shaper holds
  ssleep,              \* what is left of the shaper's sleep_for
  packetsTransmitted,  \* TrafficShaper::packetsTransmitted_
  bytesTransmitted,    \* TrafficShaper::bytesTransmitted_
  cpc,                 \* position of the controlling thread (main)
  bmutex,              \* TokenBucket::mutex_ owner among direct callers
  bpc,                 \* position of each direct caller inside consume/getTokens
  bn,                  \* argument of the caller's consume
  bret,                \* what the caller's last consume returned
  bpost,               \* token count the caller's refill left
  lastCtime,           \* history: creation time of the last packet dequeued, per priority
  stamped,             \* history: packets whose transmission time was set
  discarded,           \* history: packets the shaper gave up at its break
  cohab,               \* history: pairs (higher, lower priority) stored in the queue together
  rivals,              \* history: later-created packets of its priority the queue held
                       \*          when the shaper took its current packet
  paid,                \* history: tokens the shaper has consumed for the packet it holds
  mainpc,              \* runScenario1: the statement the main thread is at
  shFlows,             \* TrafficShaper::flows_ (the ids registered by addFlow)
  periodTokens,        \* history: token count after the last refill that added
  periodSum,           \* history: tokens direct callers deducted since then
  winStart,            \* observer: time of the first reading of bytesTransmitted
  winBytes,            \* observer: value read
  winHeld,             \* observer: size of the packet the shaper held then
  gthreads,            \* TrafficGenerator::threads_.size()
  sthreads,            \* threads TrafficShaper::thread_ was given and not yet joined
  cthreads,            \* the same for StatisticsCollector::thread_
  colRunning,          \* StatisticsCollector::running_
  colpc,               \* position of the collector thread in collectStats
  colsleep,            \* what is left of the collector's sleep_for
  startTime,           \* StatisticsCollector::startTime_
  colleft,             \* flows the current pass of collectStats has still to visit
  cur,                 \* the SystemStats under construction
  history,             \* StatisticsCollector::history_
  shutdown,            \* PacketQueue::shutdown_
  dpc,                 \* position of each direct caller of dequeue
  dret,                \* what the caller's last dequeue returned
  dwas,                \* history: the caller was blocked on an empty queue at shutdown()
  cfg,                 \* Flow::type_, Flow::targetRate_, TrafficShaper::linkCapacity_ as constructed
  cfgOut,              \* what the last division on the configuration gave
  divZero,             \* history: a division by zero was executed
  credit,              \* history: tokens the refills have added in all
  addCalls,            \* history: number of refills that added tokens
  capHit,              \* history: a refill was cut short by bucketSize_
  lastCall             \* history: clock value of the last refill

queueVars == <<queue, currentSize, totalDropped>>
bucketVars == <<tokens, lastUpdate>>
flowVars == <<priority, active, packetsSent, packetsDropped, flowBytes>>
genVars == <<genRunning, gpc, gpkt, gsleep>>
shaperVars == <<shRunning, spc, spkt, ssleep, packetsTransmitted, bytesTransmitted>>
callerVars == <<bmutex, bpc, bn, bret, bpost>>
histVars == <<lastCtime, stamped, discarded, cohab, rivals, paid>>
periodVars == <<periodTokens, periodSum>>
winVars == <<winStart, winBytes, winHeld>>
threadVars == <<gthreads, sthreads, cthreads>>
collVars == <<colRunning, colpc, colsleep, startTime, colleft, cur, history>>
\* direct users of the queue: shutdown_ and the callers of dequeue
dqVars == <<shutdown, dpc, dret, dwas>>

\* a configuration handed to the constructors, and what the two divisions
\* computed from it gave
cfgVars == <<cfg, cfgOut, divZero>>

\* history of the refills made for direct callers of the bucket
creditVars == <<credit, addCalls, capHit, lastCall>>

\* the main program: its position in runScenario1 and the flows it has
\* registered with the shaper
mainVars == <<mainpc, shFlows>>

extVars == <<threadVars, collVars, dqVars, cfgVars, creditVars, mainVars>>
vars == <<now, queueVars, bucketVars, flowVars, genVars, shaperVars, cpc,
          callerVars, histVars, periodVars, winVars, extVars>>

MaxTime == MaxTicks * TickStep
MaxRateTime == MaxRateTicks * TickStep
MaxBucketTime == MaxBucketTicks * TickStep
\* the whole program is followed for one clock quantum: what is checked of
\* it is the order of its calls, not their timing
MaxLifeTime == TickStep
\* sizes Flow::generatePacket draws for the producer threads
Sizes == MinSize..MaxSize
\* sizes of the packets arriving in SpecRate
ArrivalSizes == MinSize..(MaxSize + 1)
\* arguments direct callers pass to TokenBucket::consume
Amounts == 1..(BucketSize + 1)

(* ------------------------------- Packet -------------------------------- *)

Packet(f, seq, size, pri, t) ==
  [flow |-> f, seq |-> seq, size |-> size, pri |-> pri, ctime |-> t,
   dropped |-> FALSE]

\* what the history variables keep of a packet
Ident(p) == <<p.flow, p.seq>>

Priorities == {LOW, MEDIUM, HIGH, CRITICAL}

(* ----------------------------- PacketQueue ----------------------------- *)

\* faulty variant: the comparator ignores the priority
ComparatorNoPriority(a, b) == a.ctime > b.ctime

\* faulty variant: within a priority the newest packet is served first
ComparatorNewestFirst(a, b) ==
  IF a.pri # b.pri THEN a.pri < b.pri ELSE a.ctime < b.ctime

\* PacketComparator: TRUE when a is served after b
PacketComparator(a, b) ==
  IF a.pri # b.pri THEN a.pri < b.pri ELSE a.ctime > b.ctime

\* priority_queue::top: a packet no other stored packet outranks
Top(q) == {p \in q : \A o \in q : ~PacketComparator(p, o)}

\* faulty variant: the fullness test admits one packet too many
QueueFullOffByOne(sz) == sz > MaxQueueSize

QueueFull(sz) == sz >= MaxQueueSize

\* faulty variant: a full queue evicts its head to admit the new packet
EnqueueHeadDrop(q, sz, dropped, p) ==
  IF QueueFull(sz) /\ q # {}
    THEN [queue |-> (q \ {CHOOSE v \in Top(q) : TRUE}) \cup {p}, size |-> sz,
          dropped |-> dropped + 1, ok |-> FALSE]
    ELSE [queue |-> q \cup {p}, size |-> sz + 1, dropped |-> dropped, ok |-> TRUE]

\* faulty variant: a rejected packet is not counted in totalDropped_
EnqueueUncounted(q, sz, dropped, p) ==
  IF QueueFull(sz)
    THEN [queue |-> q, size |-> sz, dropped |-> dropped, ok |-> FALSE]
    ELSE [queue |-> q \cup {p}, size |-> sz + 1, dropped |-> dropped, ok |-> TRUE]

\* PacketQueue::enqueue, as the new queue state and the value returned
Enqueue(q, sz, dropped, p) ==
  IF QueueFull(sz)
    THEN [queue |-> q, size |-> sz, dropped |-> dropped + 1, ok |-> FALSE]
    ELSE [queue |-> q \cup {p}, size |-> sz + 1, dropped |-> dropped, ok |-> TRUE]

(* ----------------------------- TokenBucket ----------------------------- *)

\* faulty variant: the refill does not cap at bucketSize_
RefillNoCap(tok, lu, t) ==
  LET elapsed == t - lu
      tokensToAdd == (TokenRate * elapsed) \div Million
  IN  IF tokensToAdd > 0
        THEN [tokens |-> tok + tokensToAdd, lastUpdate |-> t, added |-> TRUE]
        ELSE [tokens |-> tok, lastUpdate |-> lu, added |-> FALSE]

\* faulty variant: lastUpdate_ is advanced even when nothing is added
RefillAlwaysAdvance(tok, lu, t) ==
  LET elapsed == t - lu
      tokensToAdd == (TokenRate * elapsed) \div Million
  IN  [tokens |-> Min(tok + tokensToAdd, BucketSize), lastUpdate |-> t,
       added |-> tokensToAdd > 0]

\* TokenBucket::refill at clock value t
Refill(tok, lu, t) ==
  LET elapsed == t - lu
      tokensToAdd == (TokenRate * elapsed) \div Million
  IN  IF tokensToAdd > 0
        THEN [tokens |-> Min(tok + tokensToAdd, BucketSize), lastUpdate |-> t,
              added |-> TRUE]
        ELSE [tokens |-> tok, lastUpdate |-> lu, added |-> FALSE]

\* faulty variant: the test is tokens_ > tokens
CanConsumeStrict(tok, n) == tok > n

\* TokenBucket::consume: tokens_ >= tokens
CanConsume(tok, n) == tok >= n

\* TokenBucket::consume as one critical section
Consume(tok, lu, t, n) ==
  LET r == Refill(tok, lu, t)
  IN  IF CanConsume(r.tokens, n)
        THEN [tokens |-> r.tokens - n, lastUpdate |-> r.lastUpdate, ok |-> TRUE,
              refilled |-> r.tokens, added |-> r.added]
        ELSE [tokens |-> r.tokens, lastUpdate |-> r.lastUpdate, ok |-> FALSE,
              refilled |-> r.tokens, added |-> r.added]

(* -------------------------------- Flow --------------------------------- *)

\* Flow::getInterArrivalTime: the values it can return
InterArrivalTimes(type, rate) ==
  CASE type = "CONSTANT_RATE" -> {(AvgPacketSize * Million) \div rate}
    [] type = "BURSTY" -> {(AvgPacketSize * Million) \div (rate * 3),
                           (AvgPacketSize * Million) \div (rate \div 2)}
    [] type = "POISSON" -> {k * TickStep : k \in 0..MaxTicks}

\* serialization delay of TrafficShaper::processPackets
TransmissionTimeMicros(size) == (size * 8 * Million) \div LinkCapacity

(* -------------------------------- Init --------------------------------- *)

Constructed ==
  /\ now = 0
  /\ queue = {} /\ currentSize = 0 /\ totalDropped = 0
  /\ tokens = BucketSize /\ lastUpdate = 0
  /\ priority \in PriorityConfigs
  /\ active = [f \in Flows |-> TRUE]
  /\ packetsSent = [f \in Flows |-> 0]
  /\ packetsDropped = [f \in Flows |-> 0]
  /\ flowBytes = [f \in Flows |-> 0]
  /\ genRunning = FALSE
  /\ gpc = [f \in Flows |-> "none"]
  /\ gpkt = [f \in Flows |-> NoPacket]
  /\ gsleep = [f \in Flows |-> 0]
  /\ shRunning = FALSE /\ spc = "none" /\ spkt = NoPacket /\ ssleep = 0
  /\ packetsTransmitted = 0 /\ bytesTransmitted = 0
  /\ cpc = "idle"
  /\ bmutex = NoOwner
  /\ bpc = [c \in BucketCallers |-> "idle"]
  /\ bn = [c \in BucketCallers |-> 0]
  /\ bret = [c \in BucketCallers |-> "none"]
  /\ bpost = [c \in BucketCallers |-> 0]
  /\ lastCtime = [c \in Priorities |-> -1] /\ stamped = {} /\ discarded = {} /\ cohab = {}
  /\ rivals = 0 /\ paid = 0
  /\ periodTokens = BucketSize /\ periodSum = 0
  /\ winStart = -1 /\ winBytes = 0 /\ winHeld = 0
  /\ gthreads = 0 /\ sthreads = 0 /\ cthreads = 0
  /\ colRunning = FALSE /\ colpc = "none" /\ colsleep = 0 /\ startTime = 0
  /\ colleft = {} /\ cur = NoSample /\ history = <<>>
  /\ shutdown = FALSE
  /\ dpc = [d \in Dequeuers |-> "idle"]
  /\ dret = [d \in Dequeuers |-> NotReturned]
  /\ dwas = [d \in Dequeuers |-> FALSE]
  /\ cfg = NoConfig
  /\ cfgOut = NoOutcome
  /\ divZero = FALSE
  /\ mainpc = "startGenerator"
  /\ credit = 0 /\ addCalls = 0 /\ capHit = FALSE /\ lastCall = 0

\* runScenario1 before its starts: every flow has been handed to addFlow
Init == Constructed /\ shFlows = ShaperFlows

\* a shaper just constructed: flows_ is empty
InitRegister == Constructed /\ shFlows = {}

(* -------------------------------- clock -------------------------------- *)

\* the clock moves on by one quantum, and every running sleep with it
Advance(limit) ==
  /\ now < limit
  /\ now' = now + TickStep
  /\ gsleep' = [f \in Flows |-> Max(0, gsleep[f] - TickStep)]
  /\ ssleep' = Max(0, ssleep - TickStep)
  /\ colsleep' = Max(0, colsleep - TickStep)
  /\ UNCHANGED <<creditVars, cfgVars, mainVars, dqVars, queueVars, bucketVars, flowVars, genRunning, gpc, gpkt,
                 shRunning, spc, spkt, packetsTransmitted, bytesTransmitted,
                 cpc, callerVars, histVars, periodVars, winVars, threadVars,
                 colRunning, colpc, startTime, colleft, cur, history>>

Tick == Advance(MaxTime)

TickRate == Advance(MaxRateTime)

TickBucket == Advance(MaxBucketTime)

TickLife == Advance(MaxLifeTime)

\* time passing with the clock's reading not followed: the sleeps run out,
\* and the bucket, refilled from the reading, stays as it is, so that once
\* its tokens are spent the shaper is starved of them for good
SleepOn ==
  /\ gsleep' = [f \in Flows |-> Max(0, gsleep[f] - TickStep)]
  /\ ssleep' = Max(0, ssleep - TickStep)
  /\ colsleep' = Max(0, colsleep - TickStep)
  /\ UNCHANGED <<now, creditVars, cfgVars, mainVars, dqVars, queueVars, bucketVars, flowVars,
                 genRunning, gpc, gpkt, shRunning, spc, spkt,
                 packetsTransmitted, bytesTransmitted, cpc, callerVars,
                 histVars, periodVars, winVars, threadVars,
                 colRunning, colpc, startTime, colleft, cur, history>>

(* --------------------------- TrafficGenerator -------------------------- *)

\* faulty variant: start does not look at running_
StartUnguarded(running) == FALSE

\* start: if (running_) return
AlreadyRunning(running) == running

\* stop: if (!running_) return
AlreadyStopped(running) == ~running

\* faulty variant: join returns while the thread still runs
JoinNoWait(pc) == TRUE

\* std::thread::join returns once the thread function has returned
Joined(pc) == pc \in {"none", "done"}

\* TrafficGenerator::start
GenStart ==
  /\ cpc = "idle"
  /\ IF AlreadyRunning(genRunning)
       THEN UNCHANGED <<genVars, gthreads>>
       ELSE /\ genRunning' = TRUE
            /\ gthreads' = gthreads + Cardinality(Flows)
            /\ gpc' = [f \in Flows |-> "loop"]
            /\ gpkt' = [f \in Flows |-> NoPacket]
            /\ gsleep' = [f \in Flows |-> 0]
  /\ UNCHANGED <<creditVars, cfgVars, mainVars, dqVars, now, queueVars, bucketVars, flowVars, shaperVars, cpc,
                 callerVars, histVars, periodVars, winVars, sthreads, cthreads,
                 collVars>>

\* TrafficGenerator::stop up to the joins
GenStop ==
  /\ cpc = "idle"
  /\ IF AlreadyStopped(genRunning)
       THEN UNCHANGED <<genRunning, active, cpc>>
       ELSE /\ genRunning' = FALSE
            /\ active' = [f \in Flows |-> FALSE]
            /\ cpc' = "genJoin"
  /\ UNCHANGED <<now, queueVars, bucketVars, priority, packetsSent,
                 packetsDropped, flowBytes, gpc, gpkt, gsleep, shaperVars,
                 callerVars, histVars, periodVars, winVars,
                 extVars>>

\* TrafficGenerator::stop: every join has returned, threads_.clear()
GenJoin ==
  /\ cpc = "genJoin"
  /\ \A f \in Flows : Joined(gpc[f])
  /\ gpc' = [f \in Flows |-> "none"]
  /\ gthreads' = 0
  /\ cpc' = "idle"
  /\ UNCHANGED <<creditVars, cfgVars, mainVars, dqVars, now, queueVars, bucketVars, flowVars, genRunning, gpkt, gsleep,
                 shaperVars, callerVars, histVars, periodVars, winVars, sthreads,
                 cthreads, collVars>>

\* Flow::generatePacket: the sent counter
GeneratePacket(sent, f) == [sent EXCEPT ![f] = @ + 1]

\* faulty variant: the producer's loop does not ask whether its flow is active
KeepsGeneratingInactive(running, isActive) == running

\* generateTraffic: while (running_ && flow->isActive())
KeepsGenerating(running, isActive) == running /\ isActive

\* generateTraffic: loop test, then Flow::generatePacket
GenLoop(f) ==
  /\ gpc[f] = "loop"
  /\ gsleep[f] = 0
  /\ IF KeepsGenerating(genRunning, active[f])
       THEN /\ SumOver(packetsSent, Flows) < MaxPackets
            /\ \E size \in Sizes :
                 gpkt' = [gpkt EXCEPT ![f] =
                            Packet(f, packetsSent[f] + 1, size, priority[f], now)]
            /\ packetsSent' = GeneratePacket(packetsSent, f)
            /\ gpc' = [gpc EXCEPT ![f] = "enqueue"]
       ELSE /\ gpc' = [gpc EXCEPT ![f] = "done"]
            /\ UNCHANGED <<gpkt, packetsSent>>
  /\ UNCHANGED <<now, queueVars, bucketVars, priority, active, packetsDropped,
                 flowBytes, genRunning, gsleep, shaperVars, cpc, callerVars,
                 histVars, periodVars, winVars,
                 extVars>>

\* generateTraffic: queue_->enqueue(packet); on success the sleep follows
GenEnqueue(f) ==
  /\ gpc[f] = "enqueue"
  /\ LET r == Enqueue(queue, currentSize, totalDropped, gpkt[f])
     IN  /\ queue' = r.queue
         /\ currentSize' = r.size
         /\ totalDropped' = r.dropped
         /\ IF r.ok
              THEN /\ gpc' = [gpc EXCEPT ![f] = "loop"]
                   /\ \E d \in InterArrivalTimes(FlowTypeOf[f], TargetRate) :
                        gsleep' = [gsleep EXCEPT ![f] = d]
                   /\ gpkt' = [gpkt EXCEPT ![f] = NoPacket]
                   /\ cohab' = cohab
                        \cup {<<Ident(gpkt[f]), Ident(o)>> :
                                o \in {x \in queue : x.pri < gpkt[f].pri}}
                        \cup {<<Ident(o), Ident(gpkt[f])>> :
                                o \in {x \in queue : x.pri > gpkt[f].pri}}
              ELSE /\ gpc' = [gpc EXCEPT ![f] = "drop"]
                   /\ UNCHANGED <<gsleep, gpkt, cohab>>
  /\ UNCHANGED <<now, bucketVars, flowVars, genRunning, shaperVars, cpc,
                 callerVars, lastCtime, stamped, discarded, rivals, paid,
                 periodVars,
                 winVars,
                 extVars>>

\* faulty variant: recordDrop loses the increment
RecordDropLost(dropped, f) == dropped

\* Flow::recordDrop
RecordDrop(dropped, f) == [dropped EXCEPT ![f] = @ + 1]

\* generateTraffic: flow->recordDrop(), then the sleep
GenDrop(f) ==
  /\ gpc[f] = "drop"
  /\ packetsDropped' = RecordDrop(packetsDropped, f)
  /\ gpc' = [gpc EXCEPT ![f] = "loop"]
  /\ gpkt' = [gpkt EXCEPT ![f] = NoPacket]
  /\ \E d \in InterArrivalTimes(FlowTypeOf[f], TargetRate) :
       gsleep' = [gsleep EXCEPT ![f] = d]
  /\ UNCHANGED <<now, queueVars, bucketVars, priority, active, packetsSent,
                 flowBytes, genRunning, shaperVars, cpc, callerVars, histVars,
                 periodVars, winVars,
                 extVars>>

\* one packet of a source arrives: generatePacket, enqueue and, when the
\* queue rejects it, recordDrop, with no other thread in between
Arrive(f, size) ==
  /\ SumOver(packetsSent, Flows) < MaxPackets
  /\ packetsSent' = GeneratePacket(packetsSent, f)
  /\ LET p == Packet(f, packetsSent[f] + 1, size, priority[f], now)
         r == Enqueue(queue, currentSize, totalDropped, p)
     IN  /\ queue' = r.queue
         /\ currentSize' = r.size
         /\ totalDropped' = r.dropped
         /\ packetsDropped' = IF r.ok THEN packetsDropped
                                      ELSE RecordDrop(packetsDropped, f)
  /\ UNCHANGED <<now, bucketVars, priority, active, flowBytes, genVars,
                 shaperVars, cpc, callerVars, histVars, periodVars, winVars,
                 extVars>>

(* ---------------------------- TrafficShaper ---------------------------- *)

\* TrafficShaper::start
ShaperStart ==
  /\ cpc = "idle"
  /\ IF AlreadyRunning(shRunning)
       THEN UNCHANGED <<shRunning, spc, spkt, ssleep, sthreads>>
       ELSE /\ shRunning' = TRUE
            /\ sthreads' = sthreads + 1
            /\ spc' = "loop"
            /\ spkt' = NoPacket
            /\ ssleep' = 0
  /\ UNCHANGED <<creditVars, cfgVars, mainVars, dqVars, now, queueVars, bucketVars, flowVars, genVars, cpc,
                 packetsTransmitted, bytesTransmitted, callerVars, histVars,
                 periodVars, winVars, gthreads, cthreads, collVars>>

\* TrafficShaper::stop up to the join
ShaperStop ==
  /\ cpc = "idle"
  /\ IF AlreadyStopped(shRunning)
       THEN UNCHANGED <<shRunning, cpc>>
       ELSE /\ shRunning' = FALSE
            /\ cpc' = "shaperJoin"
  /\ UNCHANGED <<now, queueVars, bucketVars, flowVars, genVars, spc, spkt, ssleep,
                 packetsTransmitted, bytesTransmitted, callerVars, histVars,
                 periodVars, winVars,
                 extVars>>

\* TrafficShaper::stop: the join has returned
ShaperJoin ==
  /\ cpc = "shaperJoin"
  /\ Joined(spc)
  /\ spc' = "none"
  /\ sthreads' = 0
  /\ cpc' = "idle"
  /\ UNCHANGED <<creditVars, cfgVars, mainVars, dqVars, now, queueVars, bucketVars, flowVars, genVars, shRunning, spkt,
                 ssleep, packetsTransmitted, bytesTransmitted, callerVars,
                 histVars, periodVars, winVars, gthreads, cthreads, collVars>>

\* processPackets: outer loop test and tryDequeue
ShaperDequeue ==
  /\ spc = "loop"
  /\ ssleep = 0
  /\ IF ~shRunning
       THEN /\ spc' = "done"
            /\ UNCHANGED <<queueVars, spkt, ssleep, lastCtime, rivals, paid>>
       ELSE IF queue = {}
         THEN /\ ssleep' = PollMicros
              /\ UNCHANGED <<queueVars, spc, spkt, lastCtime, rivals, paid>>
         ELSE \E p \in Top(queue) :
                /\ queue' = queue \ {p}
                /\ currentSize' = currentSize - 1
                /\ spkt' = p
                /\ spc' = "consume"
                /\ lastCtime' = [lastCtime EXCEPT ![p.pri] = p.ctime]
                /\ paid' = 0
                /\ rivals' = Cardinality({q \in queue :
                                           q.pri = p.pri /\ q.ctime > p.ctime})
                /\ UNCHANGED <<totalDropped, ssleep>>
  /\ UNCHANGED <<now, bucketVars, flowVars, genVars, shRunning, cpc,
                 packetsTransmitted, bytesTransmitted, callerVars, stamped,
                 discarded, cohab, periodVars, winVars,
                 extVars>>

\* processPackets: while (running_ && !consume(size)) sleep
\* faulty variant: the wait for tokens never looks at running_
WaitNeverGivenUp(running) == FALSE

\* processPackets: the wait loop's test of running_, made before each consume
WaitGivenUp(running) == ~running

ShaperConsume ==
  /\ spc = "consume"
  /\ ssleep = 0
  /\ IF WaitGivenUp(shRunning)
       THEN /\ spc' = "check"
            /\ UNCHANGED <<bucketVars, ssleep, paid>>
       ELSE /\ bmutex = NoOwner
            /\ LET r == Consume(tokens, lastUpdate, now, spkt.size)
               IN  /\ tokens' = r.tokens
                   /\ lastUpdate' = r.lastUpdate
                   /\ paid' = IF r.ok THEN paid + spkt.size ELSE paid
                   /\ IF r.ok
                        THEN spc' = "check" /\ ssleep' = 0
                        ELSE spc' = "consume" /\ ssleep' = PollMicros
  /\ UNCHANGED <<now, queueVars, flowVars, genVars, shRunning, spkt, cpc,
                 packetsTransmitted, bytesTransmitted, callerVars, lastCtime,
                 stamped, discarded, cohab, rivals, periodVars, winVars,
                 extVars>>

\* faulty variant: the shaper does not look at running_ after the wait
BreakIgnored(running) == FALSE

\* processPackets: if (!running_) break
StopRequested(running) == ~running

\* processPackets: if (!running_) break; else start the serialization sleep
ShaperCheck ==
  /\ spc = "check"
  /\ IF StopRequested(shRunning)
       THEN /\ spc' = "done"
            /\ discarded' = discarded \cup {Ident(spkt)}
            /\ spkt' = NoPacket
            /\ rivals' = 0
            /\ paid' = 0
            /\ UNCHANGED ssleep
       ELSE /\ spc' = "stamp"
            /\ ssleep' = TransmissionTimeMicros(spkt.size)
            /\ UNCHANGED <<spkt, discarded, rivals, paid>>
  /\ UNCHANGED <<now, queueVars, bucketVars, flowVars, genVars, shRunning, cpc,
                 packetsTransmitted, bytesTransmitted, callerVars, lastCtime,
                 stamped, cohab, periodVars, winVars,
                 extVars>>

\* processPackets: setTransmissionTime(now) and the shaper's two counters
ShaperStamp ==
  /\ spc = "stamp"
  /\ ssleep = 0
  /\ stamped' = stamped \cup {Ident(spkt)}
  /\ packetsTransmitted' = packetsTransmitted + 1
  /\ bytesTransmitted' = bytesTransmitted + spkt.size
  /\ paid' = 0
  /\ spc' = "record"
  /\ UNCHANGED <<now, queueVars, bucketVars, flowVars, genVars, shRunning, spkt,
                 ssleep, cpc, callerVars, lastCtime, discarded, cohab, rivals,
                 periodVars, winVars,
                 extVars>>

\* faulty variant: the byte counter is charged instead of credited
RecordTransmissionDebit(bytes, f, size) == [bytes EXCEPT ![f] = @ - size]

\* Flow::recordTransmission (the byte counter)
RecordTransmission(bytes, f, size) == [bytes EXCEPT ![f] = @ + size]

\* processPackets: flows_.find and recordTransmission, then the next round
ShaperRecord ==
  /\ spc = "record"
  /\ flowBytes' = IF spkt.flow \in shFlows
                    THEN RecordTransmission(flowBytes, spkt.flow, spkt.size)
                    ELSE flowBytes
  /\ spc' = "loop"
  /\ spkt' = NoPacket
  /\ rivals' = 0
  /\ UNCHANGED <<paid, now, queueVars, bucketVars, priority, active, packetsSent,
                 packetsDropped, genVars, shRunning, ssleep, cpc,
                 packetsTransmitted, bytesTransmitted, callerVars, lastCtime,
                 stamped, discarded, cohab, periodVars, winVars,
                 extVars>>

\* TrafficShaper::getBytesTransmitted, read once by an observer
Observe ==
  /\ winStart = -1
  /\ winStart' = now
  /\ winBytes' = bytesTransmitted
  /\ winHeld' = IF spc \in {"check", "stamp"} THEN spkt.size ELSE 0
  /\ UNCHANGED <<now, queueVars, bucketVars, flowVars, genVars, shaperVars, cpc,
                 callerVars, histVars, periodVars, extVars>>

(* --------------------- direct callers of TokenBucket ------------------- *)

\* faulty variant: consume and getTokens take no lock
MutexIgnored(owner) == TRUE

\* std::lock_guard on TokenBucket::mutex_
MutexFree(owner) == owner = NoOwner

\* refill: tokensToAdd for the time elapsed since lastUpdate_
TokensToAdd(lu, t) == (TokenRate * (t - lu)) \div Million

\* what a refill at the present clock value adds to the history
RecordRefill ==
  LET add == TokensToAdd(lastUpdate, now)
  IN  /\ credit' = credit + add
      /\ addCalls' = IF add > 0 THEN addCalls + 1 ELSE addCalls
      /\ capHit' = (capHit \/ tokens + add > BucketSize)
      /\ lastCall' = now

\* TokenBucket::consume(n): lock, refill
CallConsume(c, n) ==
  /\ bpc[c] = "idle"
  /\ MutexFree(bmutex)
  /\ bmutex' = c
  /\ LET r == Refill(tokens, lastUpdate, now)
     IN  /\ tokens' = r.tokens
         /\ lastUpdate' = r.lastUpdate
         /\ bpost' = [bpost EXCEPT ![c] = r.tokens]
         /\ periodTokens' = IF r.added THEN r.tokens ELSE periodTokens
         /\ periodSum' = IF r.added THEN 0 ELSE periodSum
  /\ bn' = [bn EXCEPT ![c] = n]
  /\ bpc' = [bpc EXCEPT ![c] = "test"]
  /\ RecordRefill
  /\ UNCHANGED <<now, queueVars, flowVars, genVars, shaperVars, cpc, bret,
                 histVars, winVars,
                 threadVars, collVars, dqVars, cfgVars, mainVars>>

\* TokenBucket::consume: if (tokens_ >= tokens); the failing branch returns
ConsumeTest(c) ==
  /\ bpc[c] = "test"
  /\ IF CanConsume(tokens, bn[c])
       THEN /\ bpc' = [bpc EXCEPT ![c] = "deduct"]
            /\ UNCHANGED <<bmutex, bret>>
       ELSE /\ bpc' = [bpc EXCEPT ![c] = "idle"]
            /\ bret' = [bret EXCEPT ![c] = "false"]
            /\ bmutex' = NoOwner
  /\ UNCHANGED <<now, queueVars, bucketVars, flowVars, genVars, shaperVars, cpc,
                 bn, bpost, histVars, periodVars, winVars,
                 extVars>>

\* TokenBucket::consume: tokens_ -= tokens; return true
ConsumeDeduct(c) ==
  /\ bpc[c] = "deduct"
  /\ tokens' = tokens - bn[c]
  /\ periodSum' = periodSum + bn[c]
  /\ bpc' = [bpc EXCEPT ![c] = "idle"]
  /\ bret' = [bret EXCEPT ![c] = "true"]
  /\ bmutex' = NoOwner
  /\ UNCHANGED <<now, queueVars, lastUpdate, flowVars, genVars, shaperVars, cpc,
                 bn, bpost, histVars, periodTokens, winVars,
                 extVars>>

\* TokenBucket::getTokens: lock, refill, return tokens_
GetTokens(c) ==
  /\ bpc[c] = "idle"
  /\ MutexFree(bmutex)
  /\ LET r == Refill(tokens, lastUpdate, now)
     IN  /\ tokens' = r.tokens
         /\ lastUpdate' = r.lastUpdate
         /\ bpost' = [bpost EXCEPT ![c] = r.tokens]
         /\ periodTokens' = IF r.added THEN r.tokens ELSE periodTokens
         /\ periodSum' = IF r.added THEN 0 ELSE periodSum
  /\ RecordRefill
  /\ UNCHANGED <<now, queueVars, flowVars, genVars, shaperVars, cpc, bmutex,
                 bpc, bn, bret, histVars, winVars,
                 threadVars, collVars, dqVars, cfgVars, mainVars>>

(* --------------------- PacketQueue: blocking dequeue -------------------- *)

\* dequeue: the predicate of cv_.wait
WaitOver == queue # {} \/ shutdown

\* dequeue after the wait: nullptr if shut down and empty, else the top
DequeueReturn(d) ==
  /\ dpc' = [dpc EXCEPT ![d] = "idle"]
  /\ IF shutdown /\ queue = {}
       THEN /\ dret' = [dret EXCEPT ![d] = NoPacket]
            /\ UNCHANGED <<queue, currentSize>>
       ELSE \E p \in Top(queue) :
              /\ dret' = [dret EXCEPT ![d] = p]
              /\ queue' = queue \ {p}
              /\ currentSize' = currentSize - 1

\* PacketQueue::dequeue is called: it returns at once or blocks in the wait
Dequeue(d) ==
  /\ dpc[d] = "idle"
  /\ IF WaitOver
       THEN DequeueReturn(d)
       ELSE /\ dpc' = [dpc EXCEPT ![d] = "waiting"]
            /\ UNCHANGED <<queue, currentSize, dret>>
  /\ UNCHANGED <<creditVars, cfgVars, mainVars, now, totalDropped, bucketVars, flowVars, genVars, shaperVars,
                 cpc, callerVars, histVars, periodVars, winVars, threadVars,
                 collVars, shutdown, dwas>>

\* PacketQueue::dequeue: a blocked caller wakes with the predicate true
DequeueWake(d) ==
  /\ dpc[d] = "waiting"
  /\ WaitOver
  /\ DequeueReturn(d)
  /\ dwas' = [dwas EXCEPT ![d] = FALSE]
  /\ UNCHANGED <<creditVars, cfgVars, mainVars, now, totalDropped, bucketVars, flowVars, genVars, shaperVars,
                 cpc, callerVars, histVars, periodVars, winVars, threadVars,
                 collVars, shutdown>>

\* PacketQueue::shutdown
Shutdown ==
  /\ ~shutdown
  /\ shutdown' = TRUE
  /\ dwas' = [d \in Dequeuers |-> dpc[d] = "waiting" /\ queue = {}]
  /\ UNCHANGED <<creditVars, cfgVars, mainVars, now, queueVars, bucketVars, flowVars, genVars, shaperVars,
                 cpc, callerVars, histVars, periodVars, winVars, threadVars,
                 collVars, dpc, dret>>

(* ------------------------- StatisticsCollector ------------------------- *)

\* StatisticsCollector::start
ColStart ==
  /\ cpc = "idle"
  /\ IF AlreadyRunning(colRunning)
       THEN UNCHANGED <<colRunning, colpc, colsleep, startTime, cthreads>>
       ELSE /\ colRunning' = TRUE
            /\ startTime' = now
            /\ cthreads' = cthreads + 1
            /\ colpc' = "loop"
            /\ colsleep' = 0
  /\ UNCHANGED <<creditVars, cfgVars, mainVars, dqVars, now, queueVars, bucketVars, flowVars, genVars, shaperVars, cpc,
                 callerVars, histVars, periodVars, winVars, gthreads, sthreads,
                 colleft, cur, history>>

\* StatisticsCollector::stop up to the join
ColStop ==
  /\ cpc = "idle"
  /\ IF AlreadyStopped(colRunning)
       THEN UNCHANGED <<colRunning, cpc>>
       ELSE /\ colRunning' = FALSE
            /\ cpc' = "colJoin"
  /\ UNCHANGED <<creditVars, cfgVars, mainVars, dqVars, now, queueVars, bucketVars, flowVars, genVars, shaperVars,
                 callerVars, histVars, periodVars, winVars, threadVars, colpc,
                 colsleep, startTime, colleft, cur, history>>

\* StatisticsCollector::stop: the join has returned
ColJoin ==
  /\ cpc = "colJoin"
  /\ Joined(colpc)
  /\ colpc' = "none"
  /\ cthreads' = 0
  /\ cpc' = "idle"
  /\ UNCHANGED <<creditVars, cfgVars, mainVars, dqVars, now, queueVars, bucketVars, flowVars, genVars, shaperVars,
                 callerVars, histVars, periodVars, winVars, gthreads, sthreads,
                 colRunning, colsleep, startTime, colleft, cur, history>>

\* collectStats: loop test, timestamp and queue_->size() of a new sample
ColLoopUpTo(limit) ==
  /\ colpc = "loop"
  /\ colsleep = 0
  /\ IF ~colRunning
       THEN /\ colpc' = "done"
            /\ UNCHANGED <<colleft, cur>>
       ELSE /\ Len(history) < limit
            /\ cur' = [timestamp |-> now - startTime,
                       queueOccupancy |-> currentSize,
                       sent |-> [f \in Flows |-> 0],
                       dropped |-> [f \in Flows |-> 0],
                       bytes |-> [f \in Flows |-> 0],
                       totalPackets |-> 0,
                       totalBytes |-> 0]
            /\ colleft' = Flows
            /\ colpc' = "readSent"
  /\ UNCHANGED <<creditVars, cfgVars, mainVars, dqVars, now, queueVars, bucketVars, flowVars, genVars, shaperVars, cpc,
                 callerVars, histVars, periodVars, winVars, threadVars,
                 colRunning, colsleep, startTime, history>>

ColLoop == ColLoopUpTo(MaxSamples)

ColLoopHistory == ColLoopUpTo(MaxHistory)

\* the flow the range-for over flows_ visits next
NextFlow == CHOOSE f \in colleft : \A g \in colleft : f <= g

\* collectStats: flowStat.packetsSent = flow->getPacketsSent()
ColReadSent ==
  /\ colpc = "readSent"
  /\ cur' = [cur EXCEPT !.sent[NextFlow] = packetsSent[NextFlow]]
  /\ colpc' = "readDropped"
  /\ UNCHANGED <<creditVars, cfgVars, mainVars, dqVars, now, queueVars, bucketVars, flowVars, genVars, shaperVars, cpc,
                 callerVars, histVars, periodVars, winVars, threadVars,
                 colRunning, colsleep, startTime, colleft, history>>

\* collectStats: flowStat.packetsDropped = flow->getPacketsDropped()
ColReadDropped ==
  /\ colpc = "readDropped"
  /\ cur' = [cur EXCEPT !.dropped[NextFlow] = packetsDropped[NextFlow]]
  /\ colpc' = "readBytes"
  /\ UNCHANGED <<creditVars, cfgVars, mainVars, dqVars, now, queueVars, bucketVars, flowVars, genVars, shaperVars, cpc,
                 callerVars, histVars, periodVars, winVars, threadVars,
                 colRunning, colsleep, startTime, colleft, history>>

\* collectStats: getBytesTransmitted, then the two running totals; the
\* unsigned difference sent - dropped is kept as a signed number, so a
\* negative totalPackets stands for a wrapped one
ColReadBytes ==
  /\ colpc = "readBytes"
  /\ LET f == NextFlow
     IN  /\ cur' = [cur EXCEPT
                      !.bytes[f] = flowBytes[f],
                      !.totalBytes = @ + flowBytes[f],
                      !.totalPackets = @ + (cur.sent[f] - cur.dropped[f])]
         /\ colleft' = colleft \ {f}
         /\ colpc' = IF colleft = {f} THEN "append" ELSE "readSent"
  /\ UNCHANGED <<creditVars, cfgVars, mainVars, dqVars, now, queueVars, bucketVars, flowVars, genVars, shaperVars, cpc,
                 callerVars, histVars, periodVars, winVars, threadVars,
                 colRunning, colsleep, startTime, history>>

\* collectStats: history_.push_back(stats), then the sleep
ColAppend ==
  /\ colpc = "append"
  /\ history' = Append(history, cur)
  /\ cur' = NoSample
  /\ colsleep' = SampleIntervalMs * 1000
  /\ colpc' = "loop"
  /\ UNCHANGED <<creditVars, cfgVars, mainVars, dqVars, now, queueVars, bucketVars, flowVars, genVars, shaperVars, cpc,
                 callerVars, histVars, periodVars, winVars, threadVars,
                 colRunning, startTime, colleft>>

(* ------------------- configuration and its divisions ------------------- *)

\* Flow::Flow and TrafficShaper::TrafficShaper: every value is accepted
Construct(type, rate, link) ==
  /\ cfg = NoConfig
  /\ cfg' = [type |-> type, rate |-> rate, link |-> link]
  /\ UNCHANGED <<creditVars, mainVars, now, queueVars, bucketVars, flowVars, genVars, shaperVars, cpc,
                 callerVars, histVars, periodVars, winVars, threadVars,
                 collVars, dqVars, cfgOut, divZero>>

\* the divisor getInterArrivalTime may use for a flow of this kind and rate
InterArrivalDivisors(type, rate) ==
  CASE type = "CONSTANT_RATE" -> {rate}
    [] type = "BURSTY" -> {rate * 3, rate \div 2}
    [] type = "POISSON" -> {}

\* an unsigned 64-bit division: by zero it is undefined, and the build
\* either traps or goes on with some value
Divide(a, b) ==
  IF b = 0
    THEN {[kind |-> "trap", value |-> 0], [kind |-> "value", value |-> 0]}
    ELSE {[kind |-> "value", value |-> a \div b]}

\* what a call left: which computation it was and what it gave
Outcome(call, o) == [call |-> call, kind |-> o.kind, value |-> o.value]

\* Flow::getInterArrivalTime on the constructed flow
CallInterArrivalTime ==
  /\ cfg # NoConfig
  /\ cfgOut.kind # "trap"
  /\ \/ /\ cfg.type = "POISSON"
        /\ \E v \in InterArrivalTimes("POISSON", TargetRate) :
             cfgOut' = [call |-> "gap", kind |-> "value", value |-> v]
        /\ UNCHANGED divZero
     \/ \E b \in InterArrivalDivisors(cfg.type, cfg.rate) :
          /\ \E o \in Divide(AvgPacketSize * Million, b) :
               cfgOut' = Outcome("gap", o)
          /\ divZero' = (divZero \/ b = 0)
  /\ UNCHANGED <<creditVars, mainVars, now, queueVars, bucketVars, flowVars, genVars, shaperVars, cpc,
                 callerVars, histVars, periodVars, winVars, threadVars,
                 collVars, dqVars, cfg>>

\* processPackets: transmissionTimeMicros on the constructed shaper
CallTransmissionTime(size) ==
  /\ cfg # NoConfig
  /\ cfgOut.kind # "trap"
  /\ \E o \in Divide(size * 8 * Million, cfg.link) :
       cfgOut' = Outcome("delay", o)
  /\ divZero' = (divZero \/ cfg.link = 0)
  /\ UNCHANGED <<creditVars, mainVars, now, queueVars, bucketVars, flowVars, genVars, shaperVars, cpc,
                 callerVars, histVars, periodVars, winVars, threadVars,
                 collVars, dqVars, cfg>>

(* ---------------------------- specifications --------------------------- *)

\* the pipeline: producers, queue, shaper, bucket, controlling thread
Next ==
  \/ Tick
  \/ GenStart
  \/ GenStop
  \/ GenJoin
  \/ \E f \in Flows : GenLoop(f)
  \/ \E f \in Flows : GenEnqueue(f)
  \/ \E f \in Flows : GenDrop(f)
  \/ ShaperStart
  \/ ShaperStop
  \/ ShaperJoin
  \/ ShaperDequeue
  \/ ShaperConsume
  \/ ShaperCheck
  \/ ShaperStamp
  \/ ShaperRecord

Spec == Init /\ [][Next]_vars

\* the token bucket under several concurrent callers
NextBucket ==
  \/ TickBucket
  \/ \E c \in BucketCallers : \E n \in Amounts : CallConsume(c, n)
  \/ \E c \in BucketCallers : ConsumeTest(c)
  \/ \E c \in BucketCallers : ConsumeDeduct(c)
  \/ \E c \in BucketCallers : GetTokens(c)

SpecBucket == Init /\ [][NextBucket]_vars

\* the shaper against arbitrary arrivals, with an observer of its byte counter
NextRate ==
  \/ TickRate
  \/ \E size \in ArrivalSizes : Arrive(Source, size)
  \/ ShaperStart
  \/ ShaperDequeue
  \/ ShaperConsume
  \/ ShaperCheck
  \/ ShaperStamp
  \/ ShaperRecord
  \/ Observe

SpecRate == Init /\ [][NextRate]_vars

\* the queue used directly: producers that enqueue, callers of the blocking
\* dequeue, and one shutdown
NextQueue ==
  \/ Tick
  \/ \E f \in Flows, size \in Sizes : Arrive(f, size)
  \/ \E d \in Dequeuers : Dequeue(d)
  \/ \E d \in Dequeuers : DequeueWake(d)
  \/ Shutdown

SpecQueue == Init /\ [][NextQueue]_vars

\* the packets a run of the whole program may generate: never more than
\* the queue can hold, so that no enqueue of such a run is rejected
LifeBudget ==
  packetsSent' # packetsSent =>
    SumOver(packetsSent, Flows) < Min(MaxLifePackets, MaxQueueSize)

\* the whole program below the capacity of its queue: the pipeline and the
\* collector, each started and stopped by the controlling thread in any
\* order and any number of times
NextLife ==
  \/ TickLife
  \/ GenStart
  \/ GenStop
  \/ GenJoin
  \/ \E f \in Flows : GenLoop(f) /\ LifeBudget
  \/ \E f \in Flows : GenEnqueue(f)
  \/ ShaperStart
  \/ ShaperStop
  \/ ShaperJoin
  \/ ShaperDequeue
  \/ ShaperConsume
  \/ ShaperCheck
  \/ ShaperStamp
  \/ ShaperRecord
  \/ ColStart
  \/ ColStop
  \/ ColJoin
  \/ ColLoop
  \/ ColReadSent
  \/ ColReadDropped
  \/ ColReadBytes
  \/ ColAppend

SpecLife == Init /\ [][NextLife]_vars

\* the collector sampling the flows while the producers run, with no shaper
\* started: the queue fills and the producers record drops
NextStats ==
  \/ TickLife
  \/ GenStart
  \/ GenStop
  \/ GenJoin
  \/ \E f \in Flows : GenLoop(f)
  \/ \E f \in Flows : GenEnqueue(f)
  \/ \E f \in Flows : GenDrop(f)
  \/ ColStart
  \/ ColStop
  \/ ColJoin
  \/ ColLoop
  \/ ColReadSent
  \/ ColReadDropped
  \/ ColReadBytes
  \/ ColAppend

SpecStats == Init /\ [][NextStats]_vars

\* runScenario1: the call the main thread makes at each statement
MainCall ==
  \/ mainpc = "startGenerator" /\ ~genRunning /\ GenStart
  \/ mainpc = "startShaper" /\ ~shRunning /\ ShaperStart
  \/ mainpc = "startCollector" /\ ~colRunning /\ ColStart
  \/ mainpc = "stopGenerator" /\ genRunning /\ GenStop
  \/ mainpc = "stopShaper" /\ shRunning /\ ShaperStop
  \/ mainpc = "stopCollector" /\ colRunning /\ ColStop
  \/ mainpc = "shutdown" /\ Shutdown

\* runScenario1: the statement that follows the one the main thread is at
MainSuccessor(pc) ==
  CASE pc = "startGenerator" -> "startShaper"
    [] pc = "startShaper" -> "startCollector"
    [] pc = "startCollector" -> "run"
    [] pc = "run" -> "stopGenerator"
    [] pc = "stopGenerator" -> "stopShaper"
    [] pc = "stopShaper" -> "stopCollector"
    [] pc = "stopCollector" -> "shutdown"
    [] pc = "shutdown" -> "finished"

\* runScenario1: the call made at a statement has returned
MainReturned(pc) ==
  /\ cpc = "idle"
  /\ CASE pc = "startGenerator" -> genRunning
       [] pc = "startShaper" -> shRunning
       [] pc = "startCollector" -> colRunning
       [] pc = "run" -> TRUE
       [] pc = "stopGenerator" -> ~genRunning
       [] pc = "stopShaper" -> ~shRunning
       [] pc = "stopCollector" -> ~colRunning
       [] pc = "shutdown" -> shutdown

\* runScenario1: the main thread moves on to its next statement; the run
\* of the simulation (the sleep between the starts and the stops) may end
\* at any moment
MainNext ==
  /\ mainpc # "finished"
  /\ MainReturned(mainpc)
  /\ mainpc' = MainSuccessor(mainpc)
  /\ UNCHANGED <<now, queueVars, bucketVars, flowVars, genVars, shaperVars, cpc,
                 callerVars, histVars, periodVars, winVars, threadVars,
                 collVars, dqVars, cfgVars, creditVars, shFlows>>

\* TrafficShaper::addFlow, called before the shaper is started
AddFlow(f) ==
  /\ cpc = "idle"
  /\ ~shRunning /\ spc = "none"
  /\ f \notin shFlows
  /\ shFlows' = shFlows \cup {f}
  /\ UNCHANGED <<now, queueVars, bucketVars, flowVars, genVars, shaperVars, cpc,
                 callerVars, histVars, periodVars, winVars, threadVars,
                 collVars, dqVars, cfgVars, creditVars, mainpc>>

\* the pipeline run with the flows registered with the shaper that the
\* program chose to register, all of them, some or none
NextRegister ==
  \/ TickLife
  \/ \E f \in Flows : AddFlow(f)
  \/ GenStart
  \/ \E f \in Flows : GenLoop(f)
  \/ \E f \in Flows : GenEnqueue(f)
  \/ \E f \in Flows : GenDrop(f)
  \/ ShaperStart
  \/ ShaperDequeue
  \/ ShaperConsume
  \/ ShaperCheck
  \/ ShaperStamp
  \/ ShaperRecord

SpecRegister == InitRegister /\ [][NextRegister]_vars

\* a program that starts the generator or not, calls generator.stop(), and
\* starts the generator again: the call made at each statement
RestartCall ==
  \/ mainpc = "startGenerator" /\ ~genRunning /\ GenStart
  \/ mainpc = "stopGenerator" /\ genRunning /\ GenStop
  \/ mainpc = "restart" /\ ~genRunning /\ GenStart

\* the statement the program goes to next: from the first start, made or
\* left out, to the stop, and, when stop() has returned, at once when the
\* generator was not running, to the second start
RestartNext ==
  /\ cpc = "idle"
  /\ \/ mainpc = "startGenerator" /\ mainpc' = "stopGenerator"
     \/ mainpc = "stopGenerator" /\ ~genRunning /\ mainpc' = "restart"
     \/ mainpc = "restart" /\ genRunning /\ mainpc' = "rerun"
  /\ UNCHANGED <<now, queueVars, bucketVars, flowVars, genVars, shaperVars, cpc,
                 callerVars, histVars, periodVars, winVars, threadVars,
                 collVars, dqVars, cfgVars, creditVars, shFlows>>

NextRestart ==
  \/ Tick
  \/ RestartCall
  \/ GenJoin
  \/ RestartNext
  \/ \E f \in Flows : GenLoop(f)
  \/ \E f \in Flows : GenEnqueue(f)
  \/ \E f \in Flows : GenDrop(f)

SpecRestart == Init /\ [][NextRestart]_vars

\* the steps of one producer thread, of the shaper thread, of the collector
\* thread and of the main thread
Producer(f) == GenLoop(f) \/ GenEnqueue(f) \/ GenDrop(f)

Shaper ==
  ShaperDequeue \/ ShaperConsume \/ ShaperCheck \/ ShaperStamp \/ ShaperRecord

Collector ==
  ColLoop \/ ColReadSent \/ ColReadDropped \/ ColReadBytes \/ ColAppend

Main == MainCall \/ GenJoin \/ ShaperJoin \/ ColJoin \/ MainNext

\* the packets generated in a run that is followed to its end
StopBudget ==
  packetsSent' # packetsSent => SumOver(packetsSent, Flows) < MaxStopPackets

\* runScenario1 from its first start to queue->shutdown()
NextStop ==
  \/ SleepOn
  \/ Main
  \/ \E f \in Flows : Producer(f) /\ StopBudget
  \/ Shaper
  \/ Collector

\* fair scheduling: time passes, and every thread that can take a step
\* eventually takes one
FairStop ==
  /\ WF_vars(SleepOn)
  /\ WF_vars(Main)
  /\ \A f \in Flows : WF_vars(Producer(f) /\ StopBudget)
  /\ WF_vars(Shaper)
  /\ WF_vars(Collector)

SpecStop == Init /\ [][NextStop]_vars /\ FairStop

\* the collector alone, started and stopped any number of times while the
\* clock runs, its history kept from one run to the next
NextHistory ==
  \/ Tick
  \/ ColStart
  \/ ColStop
  \/ ColJoin
  \/ ColLoopHistory
  \/ ColReadSent
  \/ ColReadDropped
  \/ ColReadBytes
  \/ ColAppend

SpecHistory == Init /\ [][NextHistory]_vars

\* a flow and a shaper constructed from any configuration, then asked for
\* an inter-arrival time and a serialization delay
NextConfig ==
  \/ \E type \in FlowTypes, rate \in ConfigRates, link \in ConfigLinks :
       Construct(type, rate, link)
  \/ CallInterArrivalTime
  \/ \E size \in Sizes : CallTransmissionTime(size)

SpecConfig == Init /\ [][NextConfig]_vars

\* producers, shaper and collector at work together, each started once
NextCount ==
  \/ TickLife
  \/ GenStart
  \/ \E f \in Flows : GenLoop(f)
  \/ \E f \in Flows : GenEnqueue(f)
  \/ \E f \in Flows : GenDrop(f)
  \/ ShaperStart
  \/ ShaperDequeue
  \/ ShaperConsume
  \/ ShaperCheck
  \/ ShaperStamp
  \/ ShaperRecord
  \/ ColStart
  \/ ColLoop
  \/ ColReadSent
  \/ ColReadDropped
  \/ ColReadBytes
  \/ ColAppend

SpecCount == Init /\ [][NextCount]_vars

(* ------------------------------ properties ----------------------------- *)

\* identities of the packets the queue holds
InQueueIds == {Ident(p) : p \in queue}

\* C1: in every reachable state the queue's size, and the number of packets
\* it stores, is at most max_size
C1_QueueBounded ==
  /\ currentSize <= MaxQueueSize
  /\ Cardinality(queue) <= MaxQueueSize
  /\ currentSize = Cardinality(queue)

\* the shaper has taken a packet out and the producers have filled the
\* queue up again
C1_Witness ==
  /\ currentSize = MaxQueueSize
  /\ spkt # NoPacket

\* C2: an enqueue on a full queue returns false, adds one to total_dropped
\* and leaves packets and size as they were; an enqueue on a queue that is
\* not full returns true, stores exactly that packet, adds one to the size
\* and leaves total_dropped as it was
C2_TailDrop ==
  [][\A f \in Flows :
       (gpc[f] = "enqueue" /\ gpc'[f] # "enqueue") =>
         IF currentSize = MaxQueueSize
           THEN /\ gpc'[f] = "drop"
                /\ totalDropped' = totalDropped + 1
                /\ queue' = queue
                /\ currentSize' = currentSize
           ELSE /\ gpc'[f] = "loop"
                /\ gpkt[f] \notin queue
                /\ queue' = queue \cup {gpkt[f]}
                /\ currentSize' = currentSize + 1
                /\ totalDropped' = totalDropped]_vars

\* a producer has just been turned away by a full queue that still holds
\* its packets, while another producer got a packet in
C2_Witness ==
  /\ \E f \in Flows : gpc[f] = "drop"
  /\ currentSize = MaxQueueSize
  /\ Cardinality(queue) = MaxQueueSize
  /\ totalDropped > 0

\* C3 as stated: of two packets of different priority that the queue held
\* at the same time, the higher one is dequeued before the lower one and is
\* stamped as transmitted before the lower one
C3_Original ==
  \A pr \in cohab :
    /\ pr[2] \notin InQueueIds => pr[1] \notin InQueueIds
    /\ pr[2] \in stamped => pr[1] \in stamped

\* C3: of two packets of different priority that the queue held at the same
\* time, the higher one is dequeued before the lower one, and when the lower
\* one is stamped the higher one has been stamped or was discarded unstamped
\* when the shaper was stopped
C3_StrictPriority ==
  \A pr \in cohab :
    /\ pr[2] \notin InQueueIds => pr[1] \notin InQueueIds
    /\ pr[2] \in stamped => pr[1] \in stamped \cup discarded

\* both packets of such a pair have been transmitted
C3_Witness ==
  \E pr \in cohab : pr[1] \in stamped /\ pr[2] \in stamped

\* C4 as stated: equal-priority packets are dequeued in the order of their
\* creation times, whatever the interleaving of the producers
C4_Original ==
  [][(spc = "loop" /\ spc' = "consume") =>
       spkt'.ctime >= lastCtime[spkt'.pri]]_vars

\* C4: of the equal-priority packets the queue holds at the same time, the
\* one created first is dequeued first
C4_FifoAmongQueued ==
  [][(spc = "loop" /\ spc' = "consume") =>
       /\ spkt' \in queue
       /\ \A q \in queue : q.pri = spkt'.pri => q.ctime >= spkt'.ctime]_vars

\* the shaper took a packet while the queue held a later one of its priority
C4_Witness == spc = "consume" /\ rivals > 0

\* C5: in every reachable state of the bucket, whatever consume and
\* getTokens calls were made at whatever times, 0 <= tokens <= capacity
C5_TokenBounds == tokens >= 0 /\ tokens <= BucketSize

\* a refill found the bucket full and added nothing above the capacity,
\* after a call had asked for more than the bucket held and was refused
C5_Witness ==
  /\ lastUpdate > 0
  /\ tokens = BucketSize
  /\ \A c \in BucketCallers : bret[c] # "true"
  /\ \E c \in BucketCallers : bret[c] = "false"

\* C6: consume(n) first refills from the elapsed time; it returns true
\* exactly when the count after that refill is at least n, and then leaves
\* that count less n; otherwise it returns false and leaves the count and
\* the refill time as the refill left them
C6_ConsumeSemantics ==
  [][\A c \in BucketCallers :
       /\ (bpc[c] = "idle" /\ bpc'[c] = "test") =>
            LET add == (TokenRate * (now - lastUpdate)) \div Million
            IN  /\ tokens' = IF add > 0 THEN Min(tokens + add, BucketSize)
                                        ELSE tokens
                /\ lastUpdate' = IF add > 0 THEN now ELSE lastUpdate
                /\ bpost'[c] = tokens'
       /\ (bpc[c] # "idle" /\ bpc'[c] = "idle") =>
            /\ lastUpdate' = lastUpdate
            /\ IF bpost[c] >= bn[c]
                 THEN bret'[c] = "true" /\ tokens' = bpost[c] - bn[c]
                 ELSE bret'[c] = "false" /\ tokens' = bpost[c]]_vars

\* after a refill that added tokens, one call was granted and one refused
C6_Witness ==
  /\ lastUpdate > 0
  /\ \E c \in BucketCallers : bpc[c] = "idle" /\ bret[c] = "true"
  /\ \E c \in BucketCallers : bpc[c] = "idle" /\ bret[c] = "false"

\* C7: however the consume calls of several callers interleave, the amounts
\* granted since the last refill that added tokens sum to at most the count
\* that refill left
C7_TokenConservation == periodSum <= periodTokens

\* before any refill added tokens one caller was granted the whole bucket
\* and another caller, asking for no more than the capacity, was refused
C7_Witness ==
  /\ lastUpdate = 0
  /\ periodSum = BucketSize
  /\ \E c \in BucketCallers :
       /\ bret[c] = "true"
       /\ \E d \in BucketCallers \ {c} :
            bpc[d] = "idle" /\ bret[d] = "false" /\ bn[d] <= BucketSize

\* the interval that began at the observer's reading is at least
\* capacity/rate long
LongInterval ==
  winStart >= 0 /\ (now - winStart) * TokenRate >= BucketSize * Million

\* C8 as stated: over any interval of length T >= capacity/rate the shaper's
\* bytesTransmitted grows by at most rate*T + capacity
C8_Original ==
  LongInterval =>
    (bytesTransmitted - winBytes) * Million
      <= TokenRate * (now - winStart) + BucketSize * Million

\* C8: over any interval of length T >= capacity/rate the shaper's
\* bytesTransmitted grows by less than rate*T + capacity + 1, plus the size
\* of the packet, if any, that the shaper had taken tokens for and not yet
\* stamped when the interval began
C8_RateBound ==
  LongInterval =>
    (bytesTransmitted - winBytes) * Million
      < TokenRate * (now - winStart) + (BucketSize + 1 + winHeld) * Million

\* an interval that began while the shaper held a paid-for packet and in
\* which more than rate*T + capacity bytes were stamped
C8_Witness ==
  /\ LongInterval
  /\ winHeld > 0
  /\ (bytesTransmitted - winBytes) * Million
       > TokenRate * (now - winStart) + BucketSize * Million

\* generator and shaper have both been stopped and their threads have ended
BothStopped ==
  /\ ~genRunning /\ \A f \in Flows : gpc[f] \in {"none", "done"}
  /\ ~shRunning /\ spc \in {"none", "done"}

\* C9: every flow has packetsDropped <= packetsSent, and once generator and
\* shaper have both stopped the packets sent are the packets dropped, those
\* transmitted, those still in the queue and those the shaper discarded
\* when it was stopped
C9_PacketConservation ==
  /\ \A f \in Flows : packetsDropped[f] <= packetsSent[f]
  /\ BothStopped =>
       SumOver(packetsSent, Flows)
         = SumOver(packetsDropped, Flows) + packetsTransmitted
           + Cardinality(queue) + Cardinality(discarded)

\* both have stopped after a run with a drop, a transmission and a discard
C9_Witness ==
  /\ BothStopped
  /\ SumOver(packetsDropped, Flows) > 0
  /\ packetsTransmitted > 0
  /\ discarded # {}

\* C10: the flows' packetsDropped never sum to more than the queue's
\* totalDropped, and the two are equal whenever no producer is between its
\* rejected enqueue and its recordDrop
C10_DropAccounting ==
  /\ SumOver(packetsDropped, Flows) <= totalDropped
  /\ (\A f \in Flows : gpc[f] # "drop") =>
       totalDropped = SumOver(packetsDropped, Flows)

\* the generator has been stopped and joined after a run with a drop
C10_Witness ==
  /\ totalDropped > 0
  /\ ~genRunning /\ cpc = "idle"
  /\ \A f \in Flows : gpc[f] = "none"

\* C11: start and stop are idempotent: however often start is called there
\* is exactly one producer task per flow, one shaper task and one collector
\* task while a component runs or is being joined, and none once a stop has
\* returned, however often stop is called
C11_StartStopIdempotent ==
  /\ gthreads
       = (IF genRunning \/ cpc = "genJoin" THEN Cardinality(Flows) ELSE 0)
  /\ sthreads = (IF shRunning \/ cpc = "shaperJoin" THEN 1 ELSE 0)
  /\ cthreads = (IF colRunning \/ cpc = "colJoin" THEN 1 ELSE 0)

\* all three components run, their tasks are at work, and the controlling
\* thread is free to call start or stop again
C11_Witness ==
  /\ genRunning /\ shRunning /\ colRunning
  /\ cpc = "idle"
  /\ spkt # NoPacket
  /\ colpc = "readSent"
  /\ \E f \in Flows : gpc[f] = "loop" /\ packetsSent[f] > 0

\* a stop() of the generator called in this state returns in it
GenStopReturned == cpc = "idle" /\ ~genRunning

\* C12 as stated: whenever stop() of the generator returns, every
\* registered flow is inactive and every producer task has terminated
C12_Original ==
  GenStopReturned =>
    \A f \in Flows : ~active[f] /\ gpc[f] = "none"

\* C12: a stop() that finds the generator running clears running and marks
\* every flow inactive, returns only after every producer task has ended
\* with no packet in its hands, and neither of its steps changes the stored
\* packets or the size of the queue; once it has returned the generator is
\* not running and no thread is left
C12_CooperativeDrain ==
  [][/\ (cpc = "idle" /\ cpc' = "genJoin") =>
          /\ ~genRunning'
          /\ \A f \in Flows : ~active'[f]
          /\ queue' = queue /\ currentSize' = currentSize
     /\ (cpc = "genJoin" /\ cpc' = "idle") =>
          /\ ~genRunning'
          /\ \A f \in Flows :
               /\ ~active'[f]
               /\ gpc[f] \in {"none", "done"}
               /\ gpc'[f] = "none"
               /\ gpkt'[f] = NoPacket
          /\ gthreads' = 0
          /\ queue' = queue /\ currentSize' = currentSize]_vars

\* stop() has returned after the producers ran, and packets they enqueued
\* are still in the queue
C12_Witness ==
  /\ GenStopReturned
  /\ \A f \in Flows : ~active[f] /\ gpc[f] = "none"
  /\ currentSize = MaxQueueSize
  /\ SumOver(packetsSent, Flows) = MaxPackets

\* C13: a caller of dequeue that was blocked on an empty queue when
\* shutdown() was called returns None from that call
C13_BlockedReturnsNone ==
  [][\A d \in Dequeuers :
       (dwas[d] /\ dpc[d] = "waiting" /\ dpc'[d] = "idle")
         => dret'[d] = NoPacket]_vars

\* C14: once shutdown() has been called no enqueue adds to the stored
\* packets, and every enqueue counts its packet as a drop
C14_EnqueueRejected ==
  [][shutdown =>
       /\ queue' \subseteq queue
       /\ packetsSent' # packetsSent => totalDropped' = totalDropped + 1]_vars

\* C15: a shaper that finds its stop requested while it holds a dequeued
\* packet leaves the wait for tokens without consuming any and then exits;
\* the packet is never stamped, the shaper's two counters and every flow's
\* bytes and drops stay as they are, and a run of the shaper discards at
\* most one packet, since the discard ends the run
C15_ShutdownInFlight ==
  [][/\ (spc = "consume" /\ ~shRunning /\ spc' # spc) =>
          /\ spc' = "check"
          /\ spkt' = spkt
          /\ tokens' = tokens /\ lastUpdate' = lastUpdate
     /\ (spc \in {"consume", "check"} /\ ~shRunning /\ spc' # spc) =>
          /\ stamped' = stamped
          /\ packetsTransmitted' = packetsTransmitted
          /\ bytesTransmitted' = bytesTransmitted
          /\ flowBytes' = flowBytes
          /\ packetsDropped' = packetsDropped
          /\ totalDropped' = totalDropped
     /\ (spc = "check" /\ ~shRunning /\ spc' # spc) =>
          /\ spc' = "done"
          /\ discarded' = discarded \cup {Ident(spkt)}
          /\ spkt' = NoPacket
     /\ discarded' # discarded =>
          /\ spc = "check" /\ spc' = "done"
          /\ Cardinality(discarded') = Cardinality(discarded) + 1
     /\ discarded' \cap stamped' = {}]_vars

\* the shaper has exited with a packet for which the bucket, emptied by the
\* one packet transmitted before it and never refilled, had no token
C15_Witness ==
  /\ spc = "done"
  /\ discarded # {}
  /\ packetsTransmitted = 1
  /\ tokens = 0 /\ lastUpdate = 0

\* C16: in every sample the collector has appended, each flow's sampled
\* packetsDropped is at most its sampled packetsSent, and the sample's total
\* packet count, the sum of sent - dropped, has not wrapped
C16_SampleConsistent ==
  \A i \in 1..Len(history) :
    /\ \A f \in Flows : history[i].dropped[f] <= history[i].sent[f]
    /\ history[i].totalPackets >= 0

\* C17: a packet rejected at enqueue has its dropped flag set when the
\* producer lets go of it
C17_RejectedIsFlagged ==
  [][\A f \in Flows :
       (gpc[f] = "drop" /\ gpc'[f] # "drop") => gpkt[f].dropped]_vars

\* C18: no step of a producer, of the shaper or of the collector lowers a flow's packetsSent, packetsDropped or
\* bytesTransmitted
C18_CountersMonotone ==
  [][\A f \in Flows :
       /\ packetsSent'[f] >= packetsSent[f]
       /\ packetsDropped'[f] >= packetsDropped[f]
       /\ flowBytes'[f] >= flowBytes[f]]_vars

\* a packet has been transmitted and recorded and another dropped while the
\* collector is in the middle of a sample
C18_Witness ==
  /\ \E f \in Flows : flowBytes[f] > 0
  /\ \E f \in Flows : packetsDropped[f] > 0
  /\ colpc \in {"readSent", "readDropped", "readBytes"}
  /\ genRunning /\ shRunning

\* C19: no configuration the constructors accept leads to a division by
\* zero in an inter-arrival time or a serialization delay
C19_NoDivisionByZero == ~divZero

\* what a single refill over the whole time up to the last call would add
SingleRefill == (TokenRate * lastCall) \div Million

\* C20 as stated: while no refill is cut short by the capacity, the credit
\* the calls have added is what a single refill over the whole time up to
\* the last call would add (two whole numbers less than one token apart)
C20_Original == ~capHit => credit = SingleRefill

\* C20: while no refill is cut short by the capacity, the credit the calls
\* have added is at most what a single refill over the whole time up to the
\* last call would add and short of it by at most one token for each call
\* that added tokens; and a call whose tokensToAdd is 0 changes neither
\* tokens nor lastUpdate
C20_RefillCredit ==
  [][/\ ~capHit' =>
          /\ credit' <= (TokenRate * lastCall') \div Million
          /\ (TokenRate * lastCall') \div Million - credit' <= addCalls'
     /\ (/\ TokensToAdd(lastUpdate, now) = 0
         /\ \A c \in BucketCallers : ~(bpc[c] = "deduct" /\ bpc'[c] = "idle"))
          => tokens' = tokens /\ lastUpdate' = lastUpdate]_vars

\* two calls each added a token and none was cut short, yet a single refill
\* over the same time would have added three; a later call added nothing
C20_Witness ==
  /\ ~capHit
  /\ addCalls = 2 /\ credit = 2
  /\ SingleRefill = 3
  /\ lastCall > lastUpdate

\* C21: the wait for tokens of every packet the shaper dequeues can end:
\* the packet asks for no more tokens than the bucket ever holds, so that a
\* later poll finds them
C21_WaitCanEnd ==
  (spc = "consume" /\ shRunning) => spkt.size <= BucketSize

\* C22: for a BURSTY flow of any target rate R > 0 every gap
\* getInterArrivalTime returns is floor(avg_size * 10^6 / (3R)), the burst
\* gap, or floor(avg_size * 10^6 * 2 / R), the idle gap
C22_BurstyGaps ==
  (cfg.type = "BURSTY" /\ cfg.rate > 0 /\ cfgOut.call = "gap") =>
    /\ cfgOut.kind = "value"
    /\ cfgOut.value \in {(AvgPacketSize * Million) \div (3 * cfg.rate),
                         (AvgPacketSize * Million * 2) \div cfg.rate}

\* C23: every transmitted packet of n bytes is paid for by exactly one
\* successful consume(n), made by the shaper after it dequeued the packet and
\* before it stamps it: a stamp step finds exactly n tokens paid for the packet
\* held, a paying step is the one successful consume for a held packet on which
\* nothing was paid yet, and tokens are never taken from the bucket while the
\* shaper holds no packet.
C23_PaidOnce ==
  [][ /\ (spc = "stamp" /\ spc' = "record") =>
           (spkt # NoPacket /\ paid = spkt.size)
      /\ (paid' > paid) =>
           /\ spc = "consume"
           /\ spkt # NoPacket /\ spkt' = spkt
           /\ paid = 0 /\ paid' = spkt.size
      /\ (tokens' < tokens) =>
           /\ spc = "consume"
           /\ spkt # NoPacket
           /\ paid' = paid + spkt.size
    ]_vars

\* C23 witness: a second packet has been stamped after its own consume, on
\* tokens the bucket added since the first one was paid for.
C23_Witness ==
  /\ spc = "record"
  /\ packetsTransmitted = 2
  /\ lastUpdate > 0

\* C26: tokens are never deducted for a packet that is then discarded: when
\* the shaper reaches its test of running_ after the wait loop with the flag
\* cleared, the step it takes next being the break that discards the packet
\* it holds, no tokens have been consumed for that packet.
C26_PaidNotDiscarded ==
  (spc = "check" /\ ~shRunning) => paid = 0

\* C24: the timestamps of the collector's samples are non-decreasing along
\* the history, whatever start and stop calls the collector has received.
C24_HistoryOrdered ==
  \A i \in 1..(Len(history) - 1) :
    history[i].timestamp <= history[i + 1].timestamp

\* C25: under fair scheduling every stop() call returns and the sequence
\* generator.stop, shaper.stop, collector.stop, queue.shutdown never
\* deadlocks: once the main thread has come to generator.stop() it reaches
\* the end of the sequence, each call having returned after its join, with
\* every producer, the shaper (stopped with an empty queue or while it
\* waited for tokens as well) and the collector out of their loops.
C25_StopTerminates ==
  (mainpc = "stopGenerator") ~>
    /\ mainpc = "finished"
    /\ cpc = "idle"
    /\ shutdown
    /\ \A f \in Flows : gpc[f] = "none"
    /\ spc = "none"
    /\ colpc = "none"

\* C25 witness: the sequence has ended although the shaper was stopped while
\* it waited for tokens for the packet it held, which it then discarded.
C25_Witness ==
  /\ mainpc = "finished"
  /\ shutdown
  /\ discarded # {}
  /\ tokens = 0

\* the program has made its call of generator.stop() and the call has returned
StopHasReturned == mainpc \in {"restart", "rerun"}

\* a step that generates nothing: no flow's packets_sent or packets_dropped
\* and not the queue's total_dropped changes, and the queue does not grow
NothingGenerated ==
  /\ packetsSent' = packetsSent
  /\ packetsDropped' = packetsDropped
  /\ totalDropped' = totalDropped
  /\ currentSize' <= currentSize

\* C27 as stated: once generator.stop() has returned nothing is generated
\* any more, start() being called again or not.
C27_Original ==
  [][StopHasReturned => NothingGenerated]_vars

\* C27: once generator.stop() has returned and left every flow inactive, as
\* it does when it found the generator running, the flows stay inactive and
\* nothing is generated any more, start() being called again or not.
C27_QuietAfterStop ==
  [][(StopHasReturned /\ \A f \in Flows : ~active[f]) =>
       /\ NothingGenerated
       /\ \A f \in Flows : ~active'[f]]_vars

\* C27 witness: after packets were generated, stop() has returned and the
\* generator was started again: its new producer threads have left their
\* loops and the counters are what they were.
C27_Witness ==
  /\ mainpc = "rerun"
  /\ \A f \in Flows : ~active[f] /\ gpc[f] = "done"
  /\ SumOver(packetsSent, Flows) >= 2
  /\ totalDropped >= 0

\* C28: whenever the shaper is not between its global increments and the
\* flow callback, its bytes_transmitted is the sum of the flows'
\* bytes_transmitted and its packets_transmitted the number of stamped
\* packets, the flows of the packets being registered with it or not.
C28_CountersAgree ==
  spc # "record" =>
    /\ bytesTransmitted = SumOver(flowBytes, Flows)
    /\ packetsTransmitted = Cardinality(stamped)

====
